---- MODULE Spec2Model ----
(***************************************************************************)
(* Model of intake/container/persist.py: PersistStore, the catalog of      *)
(* persisted data sources.  The store is one index file (cat.yaml) under a *)
(* root directory pdir, an in-memory mirror (_entries) and one artifact    *)
(* directory per token.                                                    *)
(***************************************************************************)
EXTENDS Integers, FiniteSets, Sequences, TLC

VARIABLES
    pdirExists,   \* the root directory self.pdir exists on disk
    fileExists,   \* the index file self.path (pdir/cat.yaml) exists
    file,         \* data['sources'] of the index file: token -> entry spec
    entries,      \* self._entries, the in-memory mirror: token -> source
    dirs,         \* artifact directories under pdir: token -> contents
    now,          \* time.time()
    cleared,      \* clear() has been called on this store
    orig,         \* history: token -> the source as it was when persisted
    last,         \* the last call: operation, argument, outcome
    singleton,    \* PersistStore._singleton[0]: the object, 0 for None
    handles,      \* the objects that constructions have returned to callers
    pdir,         \* self.pdir: the root the store is opened on
    shelf,        \* the disk under the root that is not self.pdir
    pc,           \* where this process is in opening the store
    peer          \* another process on the same root: its position, its mirror

procVars == <<singleton, handles, pdir, shelf, pc, peer>>

vars == <<pdirExists, fileExists, file, entries, dirs, now, cleared, orig, last,
          singleton, handles, pdir, shelf, pc, peer>>

----------------------------------------------------------------------------
(* Bounds *)

MaxTime == 2

(* Python's None for the numeric metadata fields, and for string fields *)
None == -1
NoStr == "none"

(* The token of a source is derived from its class and constructor        *)
(* arguments: sources that describe the same data have the same token; a  *)
(* persisted copy reads other files, so its token is another one.         *)
TokOf(cls) ==
    CASE cls = "csv1" -> "t1"
      [] cls = "csv2" -> "t2"
      [] cls = "parq1" -> "p1"
      [] cls = "parq2" -> "p2"
      [] OTHER -> "p0"

Tokens == {"t1", "t2"}
\* The ttl arguments of persist: the default None, or seconds
Ttls == {None, 1}

EmptyMap == [x \in {} |-> 0]
Put(f, k, v) == [x \in (DOMAIN f) \cup {k} |-> IF x = k THEN v ELSE f[x]]
Del(f, k) == [x \in (DOMAIN f) \ {k} |-> f[x]]

(* A metadata mapping; a key the mapping lacks holds NoStr or None *)
NoMd(user) ==
    [original_tok |-> NoStr, original_name |-> NoStr, original_source |-> NoStr,
     original_metadata |-> NoStr, timestamp |-> None, ttl |-> None,
     persist_kwargs |-> NoStr, user |-> user]

\* sout = cls(...): a live source object built by its constructor
DataSource(cls, name, user) ==
    [kind |-> "source", tok |-> TokOf(cls), name |-> name, cls |-> cls,
     md |-> NoMd(user)]

Str(s) == [kind |-> "str", tok |-> s, name |-> NoStr, cls |-> NoStr, md |-> NoMd(NoStr)]
Other == [kind |-> "other", tok |-> NoStr, name |-> NoStr, cls |-> NoStr, md |-> NoMd(NoStr)]
NoObj == [kind |-> "none", tok |-> NoStr, name |-> NoStr, cls |-> NoStr, md |-> NoMd(NoStr)]

\* The sources a caller holds before persisting
Originals == {DataSource("csv1", "a", "m0"), DataSource("csv2", "b", "m1")}

(* What DataSource.persist builds: the copy that reads the artifact, with  *)
(* the metadata that lets the store go back to the original.               *)
PersistedCopy(s, ttl, kw, t) ==
    [kind |-> "source",
     tok |-> TokOf(IF s.cls = "csv1" THEN "parq1" ELSE "parq2"),
     name |-> s.name,
     cls |-> IF s.cls = "csv1" THEN "parq1" ELSE "parq2",
     md |-> [original_tok |-> s.tok, original_name |-> s.name,
             original_source |-> s.cls, original_metadata |-> s.md.user,
             timestamp |-> t, ttl |-> ttl, persist_kwargs |-> kw,
             user |-> NoStr]]

(* source._yaml()['sources'][source.name]: the entry spec; the name is the *)
(* key of the mapping _yaml returns and is not part of the spec.           *)
Yaml(source) == [driver |-> source.cls, md |-> source.md]

(* The catalog entry the loader builds from the spec stored under a key *)
Parse(key, spec) ==
    [kind |-> "entry", tok |-> TokOf(spec.driver), name |-> key,
     cls |-> spec.driver, md |-> spec.md]

----------------------------------------------------------------------------
\* The exceptions a call can end in; Ok is a normal return
Ok == "ok"
IndexError == "IndexError"
KeyError == "KeyError"
FileNotFoundError == "FileNotFoundError"
PermissionError == "PermissionError"

\* metadata.get('original_tok', source._tok)
OriginalTokOr(source) ==
    IF source.md.original_tok # NoStr THEN source.md.original_tok ELSE source.tok

\* A mutation of get_tok: the object's own token is always used
get_tok_own(source) ==
    IF source.kind \in {"str", "entry", "source"} THEN source.tok ELSE IndexError

\* PersistStore.get_tok: the token, or IndexError when it raises
get_tok(source) ==
    IF source.kind = "str" THEN source.tok
    ELSE IF source.kind = "entry" THEN OriginalTokOr(source)
    ELSE IF source.kind = "source" THEN OriginalTokOr(source)
    ELSE IndexError

\* A mutation of add_data: the entry is filed under the copy's own token
add_data_own(data, key, source) == Put(data, source.tok, Yaml(source))

\* A mutation of add_data: the mirror is written out, the file is not read
add_data_mirror(data, key, source) ==
    Put([k \in DOMAIN entries |-> Yaml(entries[k])], key, Yaml(source))

\* PersistStore.add, line 71: data['sources'][key] = the source's spec
add_data(data, key, source) == Put(data, key, Yaml(source))

\* A mutation of add_entries: the mirror is not updated
add_entries_skip(ents, key, source) == ents

\* PersistStore.add, line 74: self._entries[key] = source
add_entries(ents, key, source) == Put(ents, key, source)

\* Catalog lookup self[key] and `key in self`, on the in-memory mirror
Has(ents, key) == key \in DOMAIN ents
GetExc(ents, key) == IF Has(ents, key) THEN Ok ELSE KeyError
GetVal(ents, key) == IF Has(ents, key) THEN ents[key] ELSE NoObj

\* Truth value of metadata.get('ttl', None): None and 0 are false
Truthy(ttl) == ttl # None /\ ttl # 0

\* A mutation of needs_refresh: the comparison the docstring describes,
\* and an entry without ttl counts as expired
needs_refresh_none(ents, source, t) ==
    IF Has(ents, source.tok)
    THEN IF Truthy(ents[source.tok].md.ttl)
         THEN ents[source.tok].md.ttl < t - ents[source.tok].md.timestamp
         ELSE TRUE
    ELSE TRUE

\* PersistStore.needs_refresh at time t
needs_refresh(ents, source, t) ==
    IF Has(ents, source.tok)
    THEN IF Truthy(ents[source.tok].md.ttl)
         THEN ents[source.tok].md.ttl < ents[source.tok].md.timestamp - t
         ELSE FALSE
    ELSE TRUE

\* A mutation of backtrack_obj: the source is rebuilt from the persisted
\* copy's own class
backtrack_obj_persisted(s) ==
    [[DataSource(s.cls, NoStr, NoStr)
        EXCEPT !.md = NoMd(s.md.original_metadata)]
        EXCEPT !.name = s.md.original_name]

\* A mutation of backtrack_obj: the persisted copy's metadata is kept
backtrack_obj_copy(s) ==
    [DataSource(s.md.original_source, s.md.original_name, NoStr)
        EXCEPT !.md = s.md]

\* PersistStore.backtrack, lines 124-129: rebuild the original source
backtrack_obj(s) ==
    [[DataSource(s.md.original_source, NoStr, NoStr)
        EXCEPT !.md = NoMd(s.md.original_metadata)]
        EXCEPT !.name = s.md.original_name]

\* A mutation of DelRaises: a missing key is passed over
DelRaises_never(data, tok) == FALSE

\* PersistStore.remove, line 105: del data['sources'][source] raises
\* KeyError when the file's data lacks the key
DelRaises(data, tok) == tok \notin DOMAIN data

\* shutil.rmtree(path): the error it raises, if any
rmtree_error(ds, tok, fail) ==
    IF tok \notin DOMAIN ds THEN FileNotFoundError
    ELSE IF fail THEN PermissionError
    ELSE Ok

\* A mutation of rmtree_dirs: the root is deleted instead of the directory
rmtree_dirs_root(ds, tok, fail) ==
    IF rmtree_error(ds, tok, fail) = Ok THEN EmptyMap ELSE ds

\* the directories after shutil.rmtree(path), failed or not
rmtree_dirs(ds, tok, fail) ==
    IF rmtree_error(ds, tok, fail) = Ok THEN Del(ds, tok) ELSE ds

\* A mutation of CaughtIOError: only a missing directory is forgiven
CaughtIOError_missing(err) == err = FileNotFoundError

\* `except IOError` in remove: IOError is OSError, which the errors of
\* rmtree derive from
CaughtIOError(err) == err \in {FileNotFoundError, PermissionError}

\* PersistStore.getdir, lines 53-57: rmtree(ignore_errors=True) leaves the
\* directory as it is when it fails; makedirs then finds it there, and its
\* error is swallowed
getdir_dirs(ds, tok, rmfail) ==
    LET d1 == IF tok \in DOMAIN ds /\ ~rmfail THEN Del(ds, tok) ELSE ds
    IN  IF tok \in DOMAIN d1 THEN d1 ELSE Put(d1, tok, "empty")
----------------------------------------------------------------------------
\* The record of a call: the operation, its argument, the key it resolved,
\* its boolean argument or result, how it ended, the object it returned,
\* whether it logged a failure, and what the mirror held under the key
\* before a call that stored an entry there
Call(op, arg, key, flag, exc, out, logged) ==
    [op |-> op, arg |-> arg, key |-> key, flag |-> flag, exc |-> exc,
     out |-> out, logged |-> logged, was |-> NoStr]

Was(ents, key, new) ==
    IF ~Has(ents, key) THEN "absent"
    ELSE IF ents[key] = new THEN "same" ELSE "replaced"

\* PersistStore._load on a root in the given state: the root and the index
\* file are created when missing, then the file is loaded
LoadFile(fe, f) == IF fe THEN f ELSE EmptyMap
LoadEntries(fe, f) == [k \in DOMAIN LoadFile(fe, f) |-> Parse(k, LoadFile(fe, f)[k])]

\* conf.get('persist_path'), the default root, and another root a caller
\* may pass
ConfPath == "conf"
AltPath == "alt"

\* What is on disk under a root
Disk(pd, fe, f, ds) == [pdirExists |-> pd, fileExists |-> fe, file |-> f, dirs |-> ds]
NoDisk == Disk(FALSE, FALSE, EmptyMap, EmptyMap)

\* A process and its mirror
Proc(at, ents) == [pc |-> at, entries |-> ents]

\* The index files an earlier process may have left behind
OldSource == DataSource("csv2", "b", "m1")
OldFiles == {EmptyMap, Put(EmptyMap, "t2", Yaml(PersistedCopy(OldSource, None, "kw", 0)))}

Init ==
    \E pd \in BOOLEAN, fe \in BOOLEAN, f \in OldFiles :
        /\ fe => pd
        /\ ~fe => f = EmptyMap
        /\ pdirExists = TRUE
        /\ fileExists = TRUE
        /\ file = LoadFile(fe, f)
        /\ entries = LoadEntries(fe, f)
        /\ dirs = [k \in DOMAIN f |-> "data"]
        /\ now = 0
        /\ cleared = FALSE
        /\ orig = [k \in DOMAIN f |-> OldSource]
        /\ last = Call("open", NoObj, NoStr, FALSE, Ok, NoObj, FALSE)
        /\ singleton = 1
        /\ handles = {1}
        /\ pdir = ConfPath
        /\ shelf = NoDisk
        /\ pc = "ready"
        /\ peer = Proc("off", EmptyMap)

\* What a caller can pass where a token, an entry or a source is expected
Held == {entries[k] : k \in DOMAIN entries}
Inputs == {Str(t) : t \in Tokens} \cup Originals \cup Held \cup {Other}

\* PersistStore.add(key, source)
Add(key, source, s) ==
    /\ IF ~fileExists
       THEN /\ last' = Call("add", source, key, FALSE, FileNotFoundError, NoObj, FALSE)
            /\ UNCHANGED <<file, entries, orig>>
       ELSE /\ file' = add_data(file, key, source)
            /\ entries' = add_entries(entries, key, source)
            /\ orig' = Put(orig, key, s)
            /\ last' = [Call("add", source, key, FALSE, Ok, NoObj, FALSE)
                           EXCEPT !.was = Was(entries, key, source)]
    /\ UNCHANGED <<pdirExists, fileExists, dirs, now, cleared>>
    /\ UNCHANGED procVars

\* add called with a persisted copy made now of an original source, under
\* the original's token (the key the docstring of add asks for)
AddCall ==
    \E s \in Originals, ttl \in Ttls :
        Add(s.tok, PersistedCopy(s, ttl, "kw", now), s)

\* PersistStore.remove(source, delfiles); fail: rmtree meets a permission error
Remove(x, delfiles, fail) ==
    LET tok == get_tok(x)
        err == rmtree_error(dirs, tok, fail)
    IN  /\ IF tok = IndexError
           THEN /\ last' = Call("remove", x, tok, delfiles, IndexError, NoObj, FALSE)
                /\ UNCHANGED <<file, entries, dirs, orig>>
           ELSE IF ~fileExists
           THEN /\ last' = Call("remove", x, tok, delfiles, FileNotFoundError, NoObj, FALSE)
                /\ UNCHANGED <<file, entries, dirs, orig>>
           ELSE IF DelRaises(file, tok)
           THEN /\ last' = Call("remove", x, tok, delfiles, KeyError, NoObj, FALSE)
                /\ UNCHANGED <<file, entries, dirs, orig>>
           ELSE /\ file' = Del(file, tok)
                /\ dirs' = IF delfiles THEN rmtree_dirs(dirs, tok, fail) ELSE dirs
                /\ IF delfiles /\ err # Ok /\ ~CaughtIOError(err)
                   THEN /\ last' = Call("remove", x, tok, delfiles, err, NoObj, FALSE)
                        /\ UNCHANGED <<entries, orig>>
                   ELSE IF ~Has(entries, tok)
                   THEN /\ last' = Call("remove", x, tok, delfiles, KeyError, NoObj,
                                        delfiles /\ err # Ok)
                        /\ UNCHANGED <<entries, orig>>
                   ELSE /\ entries' = Del(entries, tok)
                        /\ orig' = Del(orig, tok)
                        /\ last' = Call("remove", x, tok, delfiles, Ok, NoObj,
                                        delfiles /\ err # Ok)
        /\ UNCHANGED <<pdirExists, fileExists, now, cleared>>
        /\ UNCHANGED procVars

RemoveCall ==
    \E x \in Inputs, delfiles \in BOOLEAN, fail \in BOOLEAN :
        /\ fail => delfiles /\ get_tok(x) \in DOMAIN dirs
        /\ Remove(x, delfiles, fail)

\* PersistStore.clear()
Clear ==
    /\ IF ~pdirExists
       THEN /\ last' = Call("clear", NoObj, NoStr, FALSE, FileNotFoundError, NoObj, FALSE)
            /\ UNCHANGED <<pdirExists, fileExists, file, dirs, cleared>>
       ELSE /\ pdirExists' = FALSE
            /\ fileExists' = FALSE
            /\ file' = EmptyMap
            /\ dirs' = EmptyMap
            /\ cleared' = TRUE
            /\ last' = Call("clear", NoObj, NoStr, FALSE, Ok, NoObj, FALSE)
    /\ UNCHANGED <<entries, now, orig>>
    /\ UNCHANGED procVars

\* PersistStore.getdir(source); rmfail: rmtree meets a permission error
GetDir(source, rmfail) ==
    /\ dirs' = getdir_dirs(dirs, source.tok, rmfail)
    /\ pdirExists' = TRUE
    /\ last' = Call("getdir", source, source.tok, FALSE, Ok, NoObj, FALSE)
    /\ UNCHANGED <<fileExists, file, entries, now, cleared, orig>>
    /\ UNCHANGED procVars

GetDirCall ==
    \E s \in Originals, rmfail \in BOOLEAN :
        /\ rmfail => s.tok \in DOMAIN dirs
        /\ GetDir(s, rmfail)

\* DataSource.persist(ttl, **kwargs) of a source s, called as operation op
\* with argument arg: getdir(s), the artifact is written into the
\* directory, and the copy is added under s's own token
PersistAs(op, arg, s, ttl, rmfail) ==
    LET d1 == getdir_dirs(dirs, s.tok, rmfail)
        copy == PersistedCopy(s, ttl, "kw", now)
    IN  /\ dirs' = Put(d1, s.tok, "data")
        /\ pdirExists' = TRUE
        /\ IF ~fileExists
           THEN /\ last' = Call(op, arg, s.tok, FALSE, FileNotFoundError, NoObj, FALSE)
                /\ UNCHANGED <<file, entries, orig>>
           ELSE /\ file' = add_data(file, s.tok, copy)
                /\ entries' = add_entries(entries, s.tok, copy)
                /\ orig' = Put(orig, s.tok, s)
                /\ last' = [Call(op, arg, s.tok, FALSE, Ok, copy, FALSE)
                               EXCEPT !.was = Was(entries, s.tok, copy)]
        /\ UNCHANGED <<fileExists, now, cleared>>
        /\ UNCHANGED procVars

Persist ==
    \E s \in Originals, ttl \in Ttls, rmfail \in BOOLEAN :
        /\ rmfail => s.tok \in DOMAIN dirs
        /\ PersistAs("persist", s, s, ttl, rmfail)

\* PersistStore.backtrack(source)
Backtrack(x) ==
    LET key == get_tok(x)
    IN  /\ IF key = IndexError
           THEN last' = Call("backtrack", x, key, FALSE, IndexError, NoObj, FALSE)
           ELSE IF ~Has(entries, key)
           THEN last' = Call("backtrack", x, key, FALSE, KeyError, NoObj, FALSE)
           ELSE last' = Call("backtrack", x, key, FALSE, Ok, backtrack_obj(entries[key]), FALSE)
        /\ UNCHANGED <<pdirExists, fileExists, file, entries, dirs, now, cleared, orig>>
        /\ UNCHANGED procVars

BacktrackCall == \E x \in Inputs : Backtrack(x)

\* PersistStore.refresh(key); the ttl of the new copy is the default or the
\* old one, as the stored persist_kwargs have it
Refresh(key, rmfail, keepTtl) ==
    IF ~Has(entries, key)
    THEN /\ last' = Call("refresh", Str(key), key, FALSE, KeyError, NoObj, FALSE)
         /\ UNCHANGED <<pdirExists, fileExists, file, entries, dirs, now, cleared, orig>>
         /\ UNCHANGED procVars
    ELSE PersistAs("refresh", Str(key), backtrack_obj(entries[get_tok(Str(key))]),
                   IF keepTtl THEN entries[key].md.ttl ELSE None, rmfail)

RefreshCall ==
    \E key \in Tokens, rmfail \in BOOLEAN, keepTtl \in BOOLEAN :
        /\ rmfail => key \in DOMAIN dirs
        /\ Refresh(key, rmfail, keepTtl)

\* PersistStore.needs_refresh(source)
NeedsRefresh(source) ==
    /\ last' = Call("needs_refresh", source, source.tok,
                    needs_refresh(entries, source, now), Ok, NoObj, FALSE)
    /\ UNCHANGED <<pdirExists, fileExists, file, entries, dirs, now, cleared, orig>>
    /\ UNCHANGED procVars

NeedsRefreshCall == \E s \in Originals \cup Held : NeedsRefresh(s)

\* PersistStore.get_tok(source)
GetTok(x) ==
    /\ last' = Call("get_tok", x, get_tok(x), FALSE,
                    IF get_tok(x) = IndexError THEN IndexError ELSE Ok, NoObj, FALSE)
    /\ UNCHANGED <<pdirExists, fileExists, file, entries, dirs, now, cleared, orig>>
    /\ UNCHANGED procVars

GetTokCall == \E x \in Inputs : GetTok(x)

\* store[tok]: the lookup of an entry
Get(tok) ==
    /\ last' = Call("get", Str(tok), tok, FALSE, GetExc(entries, tok), GetVal(entries, tok), FALSE)
    /\ UNCHANGED <<pdirExists, fileExists, file, entries, dirs, now, cleared, orig>>
    /\ UNCHANGED procVars

GetCall == \E tok \in Tokens : Get(tok)

\* time passes
Tick ==
    /\ now < MaxTime
    /\ now' = now + 1
    /\ last' = Call("tick", NoObj, NoStr, FALSE, Ok, NoObj, FALSE)
    /\ UNCHANGED <<pdirExists, fileExists, file, entries, dirs, cleared, orig>>
    /\ UNCHANGED procVars

\* A mutation of new_object: every construction makes an object
new_object_always(cell, fresh) == fresh

\* PersistStore.__new__, lines 27-32: the object a construction returns,
\* given the cell _singleton[0] and the object object.__new__ would make
new_object(cell, fresh) == IF cell = 0 THEN fresh ELSE cell

\* A mutation of init_pdir: an object that is already set up keeps its root
init_pdir_kept(path) == pdir

\* PersistStore.__init__, line 35: path or conf.get('persist_path')
init_pdir(path) == IF path = NoStr THEN ConfPath ELSE path

\* PersistStore(path): __new__, then __init__ on the object it returned,
\* which sets pdir and path and loads the index file of that root
Construct(path) ==
    LET obj == new_object(singleton, Cardinality(handles) + 1)
        root == init_pdir(path)
        here == Disk(pdirExists, fileExists, file, dirs)
        d == IF root = pdir THEN here ELSE shelf
    IN  /\ singleton' = obj
        /\ handles' = handles \cup {obj}
        /\ pdir' = root
        /\ shelf' = IF root = pdir THEN shelf ELSE here
        /\ pdirExists' = TRUE
        /\ fileExists' = TRUE
        /\ file' = LoadFile(d.fileExists, d.file)
        /\ entries' = LoadEntries(d.fileExists, d.file)
        /\ dirs' = d.dirs
        /\ cleared' = FALSE
        /\ orig' = [k \in DOMAIN LoadFile(d.fileExists, d.file) |->
                        backtrack_obj(LoadEntries(d.fileExists, d.file)[k])]
        /\ last' = Call("construct", Str(path), root, FALSE, Ok, NoObj, FALSE)
        /\ UNCHANGED <<now, pc, peer>>

ConstructCall == \E path \in {NoStr, ConfPath, AltPath} : Construct(path)

\* A second process opens a PersistStore on the same root: _load, lines
\* 39-48, when the index file is there already
PeerOpen ==
    /\ peer.pc = "off"
    /\ fileExists
    /\ peer' = Proc("ready", LoadEntries(fileExists, file))
    /\ last' = Call("peer_open", NoObj, NoStr, FALSE, Ok, NoObj, FALSE)
    /\ UNCHANGED <<pdirExists, fileExists, file, entries, dirs, now, cleared, orig>>
    /\ UNCHANGED <<singleton, handles, pdir, shelf, pc>>

\* The second process calls add(key, source) on its store
PeerAdd ==
    \E s \in Originals, ttl \in Ttls :
        LET source == PersistedCopy(s, ttl, "kw", now)
        IN  /\ peer.pc = "ready"
            /\ fileExists
            /\ file' = add_data(file, s.tok, source)
            /\ peer' = [peer EXCEPT !.entries = add_entries(@, s.tok, source)]
            /\ orig' = Put(orig, s.tok, s)
            /\ last' = Call("peer_add", source, s.tok, FALSE, Ok, NoObj, FALSE)
            /\ UNCHANGED <<pdirExists, fileExists, entries, dirs, now, cleared>>
            /\ UNCHANGED <<singleton, handles, pdir, shelf, pc>>

\* The second process calls remove(tok, delfiles=False) on its store
PeerRemove ==
    \E tok \in Tokens :
        /\ peer.pc = "ready"
        /\ fileExists
        /\ ~DelRaises(file, tok)
        /\ file' = Del(file, tok)
        /\ peer' = [peer EXCEPT !.entries = Del(@, tok)]
        /\ last' = Call("peer_remove", Str(tok), tok, FALSE,
                        IF Has(peer.entries, tok) THEN Ok ELSE KeyError, NoObj, FALSE)
        /\ UNCHANGED <<pdirExists, fileExists, entries, dirs, now, cleared, orig>>
        /\ UNCHANGED <<singleton, handles, pdir, shelf, pc>>

\* Two processes about to open a PersistStore on one root, which is absent,
\* or is there without an index file, or holds an earlier index file
InitOpen ==
    \E pd \in BOOLEAN, fe \in BOOLEAN, f \in OldFiles :
        /\ fe => pd
        /\ ~fe => f = EmptyMap
        /\ pdirExists = pd
        /\ fileExists = fe
        /\ file = f
        /\ entries = EmptyMap
        /\ dirs = [k \in DOMAIN f |-> "data"]
        /\ now = 0
        /\ cleared = FALSE
        /\ orig = [k \in DOMAIN f |-> OldSource]
        /\ last = Call("open", NoObj, NoStr, FALSE, Ok, NoObj, FALSE)
        /\ singleton = 1
        /\ handles = {1}
        /\ pdir = ConfPath
        /\ shelf = NoDisk
        /\ pc = "makedirs"
        /\ peer = Proc("makedirs", EmptyMap)

\* _load, line 45: where the test of os.path.exists(self.path) leads
after_exists(fe) == IF fe THEN "load" ELSE "write"

\* _load, lines 41-44: os.makedirs(self.pdir), its errors ignored
LoadMakedirs ==
    /\ pc = "makedirs"
    /\ pdirExists' = TRUE
    /\ pc' = "exists"
    /\ UNCHANGED <<fileExists, file, entries, dirs, now, cleared, orig, last>>
    /\ UNCHANGED <<singleton, handles, pdir, shelf, peer>>

\* _load, line 45: if not os.path.exists(self.path)
LoadExists ==
    /\ pc = "exists"
    /\ pc' = after_exists(fileExists)
    /\ UNCHANGED <<pdirExists, fileExists, file, entries, dirs, now, cleared, orig, last>>
    /\ UNCHANGED <<singleton, handles, pdir, shelf, peer>>

\* _load, lines 46-47: open(self.path, 'w') and the write of 'sources: {}'
LoadWrite ==
    /\ pc = "write"
    /\ fileExists' = TRUE
    /\ file' = EmptyMap
    /\ pc' = "load"
    /\ UNCHANGED <<pdirExists, entries, dirs, now, cleared, orig, last>>
    /\ UNCHANGED <<singleton, handles, pdir, shelf, peer>>

\* _load, line 48: the loader of the base class reads the index file
LoadRead ==
    /\ pc = "load"
    /\ entries' = LoadEntries(fileExists, file)
    /\ pc' = "ready"
    /\ UNCHANGED <<pdirExists, fileExists, file, dirs, now, cleared, orig, last>>
    /\ UNCHANGED <<singleton, handles, pdir, shelf, peer>>

\* add on the store this process has opened
OpenedAdd == pc = "ready" /\ AddCall

\* The same four steps of _load in the second process
PeerMakedirs ==
    /\ peer.pc = "makedirs"
    /\ pdirExists' = TRUE
    /\ peer' = [peer EXCEPT !.pc = "exists"]
    /\ UNCHANGED <<fileExists, file, entries, dirs, now, cleared, orig, last>>
    /\ UNCHANGED <<singleton, handles, pdir, shelf, pc>>

PeerExists ==
    /\ peer.pc = "exists"
    /\ peer' = [peer EXCEPT !.pc = after_exists(fileExists)]
    /\ UNCHANGED <<pdirExists, fileExists, file, entries, dirs, now, cleared, orig, last>>
    /\ UNCHANGED <<singleton, handles, pdir, shelf, pc>>

PeerWrite ==
    /\ peer.pc = "write"
    /\ fileExists' = TRUE
    /\ file' = EmptyMap
    /\ peer' = [peer EXCEPT !.pc = "load"]
    /\ UNCHANGED <<pdirExists, entries, dirs, now, cleared, orig, last>>
    /\ UNCHANGED <<singleton, handles, pdir, shelf, pc>>

PeerRead ==
    /\ peer.pc = "load"
    /\ peer' = Proc("ready", LoadEntries(fileExists, file))
    /\ UNCHANGED <<pdirExists, fileExists, file, entries, dirs, now, cleared, orig, last>>
    /\ UNCHANGED <<singleton, handles, pdir, shelf, pc>>

Next ==
    \/ AddCall
    \/ RemoveCall
    \/ Clear
    \/ GetDirCall
    \/ Persist
    \/ BacktrackCall
    \/ RefreshCall
    \/ NeedsRefreshCall
    \/ GetTokCall
    \/ GetCall
    \/ Tick

Spec == Init /\ [][Next]_vars

\* The store with constructions of PersistStore among the calls
NextNew ==
    \/ ConstructCall
    \/ AddCall
    \/ Clear
    \/ GetCall

SpecNew == Init /\ [][NextNew]_vars

\* The store while a second process edits the index file of the same root
NextEdit ==
    \/ AddCall
    \/ RemoveCall
    \/ GetCall
    \/ PeerOpen
    \/ PeerAdd
    \/ PeerRemove

SpecEdit == Init /\ [][NextEdit]_vars

\* Two processes opening one root, step by step, and adding to it
NextOpen ==
    \/ LoadMakedirs
    \/ LoadExists
    \/ LoadWrite
    \/ LoadRead
    \/ OpenedAdd
    \/ PeerMakedirs
    \/ PeerExists
    \/ PeerWrite
    \/ PeerRead
    \/ PeerAdd

SpecOpen == InitOpen /\ [][NextOpen]_vars

----------------------------------------------------------------------------
\* The store as the claims speak of it
Store == <<pdirExists, fileExists, file, entries, dirs>>

\* C1: after a successful add(tok, src), get(tok) returns an entry whose
\* serialized spec is src's (the entry just added, also when tok was there
\* before); after a successful remove(tok), get(tok) fails with KeyError.
C1_RoundTrip ==
    /\ (last.op = "add" /\ last.exc = Ok) =>
          /\ GetExc(entries, last.key) = Ok
          /\ Yaml(GetVal(entries, last.key)) = Yaml(last.arg)
    /\ (last.op = "remove" /\ last.exc = Ok) =>
          /\ GetExc(entries, last.key) = KeyError
          /\ GetVal(entries, last.key) = NoObj

\* an add that replaced a different entry under the same token
C1_Witness ==
    /\ last.op = "add"
    /\ last.exc = Ok
    /\ last.was = "replaced"
    /\ Yaml(GetVal(entries, last.key)) = Yaml(last.arg)

\* C2: as long as the root has not been cleared, after every successful add
\* or remove the index file and the mirror hold the same tokens, and each
\* token's entry in the file is the spec of its entry in the mirror.
C2_IndexMirrorAgree ==
    (~cleared /\ last.op \in {"add", "remove"} /\ last.exc = Ok) =>
        /\ fileExists
        /\ DOMAIN file = DOMAIN entries
        /\ \A k \in DOMAIN file : file[k] = Yaml(entries[k])

\* a remove that left another token's entry in both the file and the mirror
C2_Witness ==
    /\ ~cleared
    /\ last.op = "remove"
    /\ last.exc = Ok
    /\ DOMAIN file = DOMAIN entries
    /\ DOMAIN file # {}

\* C3: for a token in the index with a ttl set, needs_refresh returns true
\* exactly when now - timestamp > ttl.
C3_TtlStaleness ==
    (/\ last.op = "needs_refresh"
     /\ Has(entries, last.key)
     /\ entries[last.key].md.ttl # None) =>
        (last.flag <=>
            now - entries[last.key].md.timestamp > entries[last.key].md.ttl)

C5_RemoveAbsent ==
    [][(/\ last'.op = "remove"
        /\ last'.key # IndexError
        /\ fileExists
        /\ last'.key \notin DOMAIN file) =>
            /\ last'.exc = KeyError
            /\ Store' = Store]_vars

\* a remove that ended in KeyError while a directory of that token exists
C5_Witness ==
    /\ last.op = "remove"
    /\ last.exc = KeyError
    /\ last.flag
    /\ fileExists
    /\ last.key \notin DOMAIN file
    /\ last.key \in DOMAIN dirs

\* C6: remove(tok, delfiles=True) of a token that the file and the mirror
\* hold returns normally and leaves tok in neither, also when the directory
\* is missing or cannot be deleted; that failure is logged and the
\* directories are left as they were.
C6_NonFatalCleanup ==
    [][(/\ last'.op = "remove"
        /\ last'.flag
        /\ fileExists
        /\ last'.key \in DOMAIN file
        /\ last'.key \in DOMAIN entries) =>
            /\ last'.exc = Ok
            /\ last'.key \notin DOMAIN file'
            /\ last'.key \notin DOMAIN entries'
            /\ last'.key \notin DOMAIN dirs => last'.logged
            /\ last'.logged => dirs' = dirs
            /\ ~last'.logged => dirs' = Del(dirs, last'.key)]_vars

\* a remove that could not delete the existing directory and still returned
C6_Witness ==
    /\ last.op = "remove"
    /\ last.flag
    /\ last.exc = Ok
    /\ last.logged
    /\ last.key \in DOMAIN dirs
    /\ last.key \notin DOMAIN file
    /\ last.key \notin DOMAIN entries

\* C7: get_tok returns a string unchanged; for an entry or a source it
\* returns metadata's original_tok when there is one and the object's own
\* token otherwise; for anything else it raises IndexError; and the call
\* changes nothing in the store.
C7_IdentityResolution ==
    [][last'.op = "get_tok" =>
        /\ last'.arg.kind = "str" =>
              (last'.exc = Ok /\ last'.key = last'.arg.tok)
        /\ (last'.arg.kind \in {"entry", "source"}
                /\ last'.arg.md.original_tok # NoStr) =>
              (last'.exc = Ok /\ last'.key = last'.arg.md.original_tok)
        /\ (last'.arg.kind \in {"entry", "source"}
                /\ last'.arg.md.original_tok = NoStr) =>
              (last'.exc = Ok /\ last'.key = last'.arg.tok)
        /\ last'.arg.kind \notin {"str", "entry", "source"} =>
              last'.exc = IndexError
        /\ Store' = Store]_vars

\* get_tok of a persisted copy gave the original's token, not the copy's
C7_Witness ==
    /\ last.op = "get_tok"
    /\ last.arg.kind = "source"
    /\ last.arg.md.original_tok # NoStr
    /\ last.key = last.arg.md.original_tok
    /\ last.key # last.arg.tok

\* C8: refresh(tok) of a token the index holds returns normally, leaves the
\* keys of the index file and of the mirror as they were, and the entry
\* under tok carries the time of the refresh as its timestamp, never an
\* earlier one than before.
C8_RefreshKeepsKey ==
    [][(/\ last'.op = "refresh"
        /\ fileExists
        /\ last'.key \in DOMAIN file
        /\ last'.key \in DOMAIN entries) =>
            /\ last'.exc = Ok
            /\ DOMAIN file' = DOMAIN file
            /\ DOMAIN entries' = DOMAIN entries
            /\ last'.key = last'.arg.tok
            /\ entries'[last'.key].md.timestamp = now
            /\ file'[last'.key].md.timestamp = now
            /\ entries[last'.key].md.timestamp <= now]_vars

\* a refresh at a later time than the entry's creation replaced the entry
C8_Witness ==
    /\ last.op = "refresh"
    /\ last.exc = Ok
    /\ last.was = "replaced"
    /\ now > 0
    /\ entries[last.key].md.timestamp = now
    /\ file[last.key].md.timestamp = now

\* C9: backtrack of a token under which a source was persisted returns the
\* source as it was before persisting (its class and arguments, its name,
\* its metadata), which is not the persisted copy; backtrack of a token the
\* index lacks ends in KeyError.
C9_BacktrackInverse ==
    (last.op = "backtrack" /\ last.key # IndexError) =>
        IF Has(entries, last.key)
        THEN /\ last.exc = Ok
             /\ last.out = orig[last.key]
             /\ last.out.cls = entries[last.key].md.original_source
             /\ last.out.name = entries[last.key].md.original_name
             /\ last.out.md = NoMd(entries[last.key].md.original_metadata)
             /\ last.out.md # entries[last.key].md
        ELSE last.exc = KeyError

\* backtrack, given the persisted copy, returned the original source
C9_Witness ==
    /\ last.op = "backtrack"
    /\ last.exc = Ok
    /\ last.arg.kind = "source"
    /\ last.arg.md.original_tok # NoStr
    /\ last.out \in Originals
    /\ last.out = orig[last.key]

\* C10: whenever getdir(source) returns, the directory of the source's
\* token exists and is empty.
C10_GetDirEmpty ==
    last.op = "getdir" =>
        /\ last.key \in DOMAIN dirs
        /\ dirs[last.key] = "empty"

\* C11: after clear() has returned, the root, the index file and every
\* artifact directory are gone and the mirror is empty, so get fails with
\* KeyError for every token and needs_refresh is true for every source.
C11_ClearLeavesNothing ==
    (last.op = "clear" /\ last.exc = Ok) =>
        /\ ~pdirExists
        /\ ~fileExists
        /\ dirs = EmptyMap
        /\ entries = EmptyMap
        /\ \A tok \in Tokens : GetExc(entries, tok) = KeyError
        /\ \A s \in Originals : needs_refresh(entries, s, now)

\* C13: needs_refresh returns True if the source is not in the store, if
\* its ttl is None, or if more seconds have passed since the entry's
\* timestamp than the ttl.
C13_Docstring ==
    last.op = "needs_refresh" =>
        ((\/ ~Has(entries, last.key)
          \/ entries[last.key].md.ttl = None
          \/ now - entries[last.key].md.timestamp > entries[last.key].md.ttl)
            => last.flag = TRUE)

\* C18: given a persisted copy whose metadata names the original token t,
\* remove, backtrack and needs_refresh address the key t, and needs_refresh
\* answers as it does for the original source.
C18_SameKey ==
    (/\ last.op \in {"remove", "backtrack", "needs_refresh"}
     /\ last.arg.kind = "source"
     /\ last.arg.md.original_tok # NoStr) =>
        /\ last.key = last.arg.md.original_tok
        /\ (last.op = "needs_refresh" /\ Has(orig, last.arg.md.original_tok)) =>
              last.flag = needs_refresh(entries, orig[last.arg.md.original_tok], now)

\* C19: after clear(), an add on the same instance succeeds and get then
\* returns the entry.
C19_UsableAfterClear ==
    (cleared /\ last.op = "add") =>
        /\ last.exc = Ok
        /\ GetExc(entries, last.key) = Ok
        /\ Yaml(GetVal(entries, last.key)) = Yaml(last.arg)

\* C17: add(tok, src) and remove(tok) leave every other token's entry in
\* the index file and in the mirror, and every other token's directory, as
\* they were (add touches no directory at all); get_tok, needs_refresh and
\* backtrack change neither the file, the mirror nor any directory.
C17_Frame ==
    [][/\ last'.op \in {"add", "remove"} =>
            /\ Del(file', last'.key) = Del(file, last'.key)
            /\ Del(entries', last'.key) = Del(entries, last'.key)
            /\ Del(dirs', last'.key) = Del(dirs, last'.key)
            /\ last'.op = "add" => dirs' = dirs
            /\ <<pdirExists', fileExists'>> = <<pdirExists, fileExists>>
       /\ last'.op \in {"get_tok", "needs_refresh", "backtrack"} =>
            Store' = Store]_vars

\* a remove that deleted its token's directory while another token keeps
\* its entry and its directory
C17_Witness ==
    /\ last.op = "remove"
    /\ last.exc = Ok
    /\ last.flag
    /\ ~last.logged
    /\ last.key \notin DOMAIN dirs
    /\ \E k \in DOMAIN file : k # last.key /\ k \in DOMAIN entries /\ k \in DOMAIN dirs

\* C12: every construction of PersistStore returns the one object, whatever
\* its arguments, so an entry added through the store is in the mirror that
\* every handle sees.
C12_Singleton ==
    /\ singleton # 0
    /\ \A h \in handles : h = singleton
    /\ (last.op = "add" /\ last.exc = Ok) => Has(entries, last.key)

\* after a construction with another path, an add is seen by the one object
C12_Witness ==
    /\ last.op = "add"
    /\ last.exc = Ok
    /\ pdir = AltPath
    /\ handles = {singleton}
    /\ Has(entries, last.key)

\* C20: a construction PersistStore(path) sets up the shared object again:
\* afterwards its root is path (the configured default when path is
\* omitted), the root and its index file exist, and the mirror is what the
\* loader makes of the index file found under that root.
C20_Reinitialised ==
    [][last'.op = "construct" =>
        LET root == IF last'.arg.tok = NoStr THEN ConfPath ELSE last'.arg.tok
            d == IF root = pdir THEN Disk(pdirExists, fileExists, file, dirs)
                 ELSE shelf
        IN  /\ singleton' = singleton
            /\ pdir' = root
            /\ pdirExists'
            /\ fileExists'
            /\ file' = (IF d.fileExists THEN d.file ELSE EmptyMap)
            /\ entries' = [k \in DOMAIN file' |-> Parse(k, file'[k])]]_vars

\* a construction without path went back to the default root and loaded
\* the entries of its index file, after the store had been on another root
C20_Witness ==
    /\ last.op = "construct"
    /\ last.arg.tok = NoStr
    /\ pdir = ConfPath
    /\ shelf.fileExists
    /\ entries # EmptyMap
    /\ \A k \in DOMAIN entries : entries[k].kind = "entry"

\* C14: add writes the in-memory mapping plus the new entry to the index
\* file without reading the file first, so after an add the file holds
\* exactly the mirror and no entry that only an external process wrote.
C14_NoReread ==
    (last.op = "add" /\ last.exc = Ok) =>
        /\ file = [k \in DOMAIN entries |-> Yaml(entries[k])]
        /\ \A k \in DOMAIN file : Has(entries, k)

\* C14, as the code has it: add reads the index file again, sets the one
\* key in the data it read and writes that back, so an entry that only an
\* external process wrote is still in the file after the add and is still
\* not in the mirror.
C14_Reread ==
    [][(last'.op = "add" /\ last'.exc = Ok) =>
        /\ file' = Put(file, last'.key, Yaml(last'.arg))
        /\ \A k \in (DOMAIN file) \ (DOMAIN entries) :
              /\ k \in DOMAIN file'
              /\ k # last'.key => ~Has(entries', k)]_vars

\* an add has kept an entry that another process wrote to the file
C14_Witness ==
    /\ last.op = "add"
    /\ last.exc = Ok
    /\ \E k \in DOMAIN file : ~Has(entries, k) /\ k # last.key

\* C16: remove of a token that is in the on-disk data ends without error
\* and leaves the token out of the file and out of the mirror, also when
\* the mirror did not have it; no remove that ends in an error has
\* rewritten the index file.
C16_ReadRepair ==
    [][last'.op = "remove" =>
        /\ last'.key \in DOMAIN file =>
              /\ last'.exc = Ok
              /\ last'.key \notin DOMAIN file'
              /\ ~Has(entries', last'.key)
        /\ last'.exc # Ok => file' = file]_vars

\* C15: in every interleaving of two processes opening the same root, each
\* with makedirs, the exists-check, the write of the empty index and the
\* load, and then adding, no call ends in an error and an index file that
\* exists is never overwritten: it stays, with every entry it holds.
C15_TolerantCreation ==
    [][/\ last'.exc = Ok
       /\ fileExists => /\ fileExists'
                        /\ \A k \in DOMAIN file : k \in DOMAIN file']_vars
====
